---------------------------- MODULE Spec2Model ----------------------------
(***************************************************************************)
(* A model of the Go package dotenv (sbowman/dotenv).                      *)
(*                                                                         *)
(* The package has three parts: the file loader and the typed accessors    *)
(* (src/unnamed/part_001), and the default registry with its help printer, *)
(* of which the repository holds two variants: src/defaults.go (Register   *)
(* takes regMutex, five default types) and src/unnamed/part_000 (Register  *)
(* takes no lock, six default types).  The variable build says which       *)
(* variant is compiled into the package.                                   *)
(*                                                                         *)
(* Go strings are modelled as sequences of one-character strings;          *)
(* "NUL" stands for the byte 0 and "\r" for a carriage return.             *)
(***************************************************************************)
EXTENDS Integers, Sequences, FiniteSets, TLC

VARIABLES
    build,        \* which variant of the registry is compiled
    registered,   \* the map `registered`: key -> descriptor
    environ,      \* the process environment: key -> raw value
    last,         \* the last call of the sequential API and what it returned
    \* the file loader
    homeErr,      \* os.UserHomeDir() returned an error
    files,        \* the two .env files: [home |-> file, local |-> file]
    env0,         \* the environment before Load
    pcLoad,       \* where Load is
    scanned,      \* lines of the current file the scanner has delivered
    lineNo,       \* process's lineNo
    loadRet,      \* what Load returned
    procErr,      \* what the last process call returned
    step,         \* what process did with the line it scanned last
    \* concurrent callers of the registry
    pc, call, ret, regMutex, mapWriters, mapReaders, written

loadVars == <<homeErr, files, env0, pcLoad, scanned, lineNo, loadRet, procErr, step>>
concVars == <<pc, call, ret, regMutex, mapWriters, mapReaders, written>>
vars == <<build, registered, environ, last, loadVars, concVars>>

---------------------------------------------------------------------------
(* Strings *)

S1(a) == <<a>>
S2(a, b) == <<a, b>>
S3(a, b, c) == <<a, b, c>>
S4(a, b, c, d) == <<a, b, c, d>>
S5(a, b, c, d, e) == <<a, b, c, d, e>>

\* A string of n copies of c (strings.Repeat on a single character).
Repeat(c, n) == [i \in 1..n |-> c]

\* unicode.IsSpace, on the characters the model uses.
IsSpace(c) == c \in {" ", "\t", "\n", "\r"}

\* strings.Index(s, c) for a one-character c, 0-based; -1 when absent.
Index(s, c) ==
    IF \E i \in 1..Len(s) : s[i] = c
    THEN (CHOOSE i \in 1..Len(s) : s[i] = c /\ \A j \in 1..(i-1) : s[j] # c) - 1
    ELSE -1

\* strings.TrimSpace
TrimSpace(s) ==
    IF \A i \in 1..Len(s) : IsSpace(s[i]) THEN <<>>
    ELSE LET lo == CHOOSE i \in 1..Len(s) :
                      ~IsSpace(s[i]) /\ \A j \in 1..(i-1) : IsSpace(s[j])
             hi == CHOOSE i \in 1..Len(s) :
                      ~IsSpace(s[i]) /\ \A j \in (i+1)..Len(s) : IsSpace(s[j])
         IN  SubSeq(s, lo, hi)

\* strings.SplitN(s, c, 2) for a one-character c.
SplitN2(s, c) ==
    LET i == Index(s, c)
    IN  IF i = -1 THEN <<s>>
        ELSE <<SubSeq(s, 1, i), SubSeq(s, i + 2, Len(s))>>

---------------------------------------------------------------------------
(* Characters, numbers and their text *)

Digits == <<"0", "1", "2", "3", "4", "5", "6", "7", "8", "9">>
IsDigit(c) == \E i \in 1..10 : Digits[i] = c
DigitVal(c) == (CHOOSE i \in 1..10 : Digits[i] = c) - 1

UpperCase == <<"A", "B", "C", "D", "E", "F", "G", "H", "I", "J", "K", "L", "M",
               "N", "O", "P", "Q", "R", "S", "T", "U", "V", "W", "X", "Y", "Z">>
LowerCase == <<"a", "b", "c", "d", "e", "f", "g", "h", "i", "j", "k", "l", "m",
               "n", "o", "p", "q", "r", "s", "t", "u", "v", "w", "x", "y", "z">>

\* The characters of keys in byte order, for comparing strings as Go does.
ByteOrder == Digits \o UpperCase \o <<"_">> \o LowerCase
Byte(c) == CHOOSE i \in 1..Len(ByteOrder) : ByteOrder[i] = c

\* Go's s < t on strings: byte-wise lexicographic order.
StrLess(s, t) ==
    \E n \in 0..Len(s) :
        /\ n <= Len(t)
        /\ \A i \in 1..n : s[i] = t[i]
        /\ \/ n = Len(s) /\ n < Len(t)
           \/ n < Len(s) /\ n < Len(t) /\ Byte(s[n + 1]) < Byte(t[n + 1])

\* Simple case folding of a letter.
Fold(c) ==
    IF \E i \in 1..26 : UpperCase[i] = c
    THEN LowerCase[CHOOSE i \in 1..26 : UpperCase[i] = c]
    ELSE c

\* strings.EqualFold
EqualFold(s, t) ==
    /\ Len(s) = Len(t)
    /\ \A i \in 1..Len(s) : Fold(s[i]) = Fold(t[i])

\* The number a string of digits denotes.
RECURSIVE DigitsVal(_)
DigitsVal(s) ==
    IF s = <<>> THEN 0 ELSE 10 * DigitsVal(SubSeq(s, 1, Len(s) - 1)) + DigitVal(s[Len(s)])

AllDigits(s) == \A i \in 1..Len(s) : IsDigit(s[i])

\* The decimal text of a natural number, and of an integer (strconv.Itoa).
RECURSIVE NatText(_)
NatText(n) == IF n < 10 THEN <<Digits[n + 1]>> ELSE NatText(n \div 10) \o <<Digits[(n % 10) + 1]>>
IntText(n) == IF n < 0 THEN <<"-">> \o NatText(-n) ELSE NatText(n)

Unsigned(s) == IF Len(s) > 0 /\ s[1] \in {"+", "-"} THEN Tail(s) ELSE s
Negative(s) == Len(s) > 0 /\ s[1] = "-"

\* The digits of s without its leading zeros.
RECURSIVE Significant(_)
Significant(s) == IF s # <<>> /\ s[1] = "0" THEN Significant(Tail(s)) ELSE s

\* A parse that failed (err != nil).
ParseError == [err |-> TRUE]
Parsed(v) == [err |-> FALSE, val |-> v]

\* strconv.Atoi on a 64-bit platform, and strconv.ParseInt(s, 10, 64): an
\* optional sign and one or more decimal digits.  A number of more than 19
\* significant digits is out of range; the model has no input between 10
\* and 19 digits, where the value decides.
Atoi(s) ==
    LET d == Unsigned(s)
    IN  IF d = <<>> \/ ~AllDigits(d) THEN ParseError
        ELSE IF Len(Significant(d)) > 19 THEN ParseError
        ELSE Parsed(IF Negative(s) THEN -DigitsVal(d) ELSE DigitsVal(d))

ParseInt64(s) == Atoi(s)

\* A float64 is modelled by its decimal value m * 10^e, m without trailing
\* zeros (0 is m = 0, e = 0).
RECURSIVE Normal(_, _)
Normal(m, e) ==
    IF m = 0 THEN [m |-> 0, e |-> 0]
    ELSE IF m % 10 = 0 THEN Normal(m \div 10, e + 1)
    ELSE [m |-> m, e |-> e]

\* strconv.ParseFloat(s, 64) on decimal numbers: sign, digits with an
\* optional point, optional exponent.  (Hexadecimal numbers, underscores,
\* Inf and NaN are not among the model's inputs.)
ParseFloat(s) ==
    LET u == Unsigned(s)
        ePos == IF \E i \in 1..Len(u) : u[i] \in {"e", "E"}
                THEN CHOOSE i \in 1..Len(u) :
                        u[i] \in {"e", "E"} /\ \A j \in 1..(i - 1) : u[j] \notin {"e", "E"}
                ELSE Len(u) + 1
        mant == SubSeq(u, 1, ePos - 1)
        expo == SubSeq(u, ePos + 1, Len(u))
        dot == Index(mant, ".")
        ipart == IF dot = -1 THEN mant ELSE SubSeq(mant, 1, dot)
        fpart == IF dot = -1 THEN <<>> ELSE SubSeq(mant, dot + 2, Len(mant))
        expOK == ePos > Len(u) \/ (Unsigned(expo) # <<>> /\ AllDigits(Unsigned(expo)))
        x == IF ePos > Len(u) THEN 0
             ELSE IF Negative(expo) THEN -DigitsVal(Unsigned(expo))
             ELSE DigitsVal(Unsigned(expo))
    IN  IF ~(AllDigits(ipart) /\ AllDigits(fpart) /\ Len(ipart) + Len(fpart) > 0 /\ expOK)
        THEN ParseError
        ELSE LET n == Normal(DigitsVal(ipart \o fpart), x - Len(fpart))
             IN  Parsed(IF Negative(s) THEN [m |-> -n.m, e |-> n.e] ELSE n)

\* A time.Duration is modelled in milliseconds.
UnitMs(u) ==
    CASE u = <<"m", "s">> -> 1
      [] u = <<"s">> -> 1000
      [] u = <<"m">> -> 60000
      [] u = <<"h">> -> 3600000
      [] OTHER -> 0

\* The leading digits of s, and the leading non-digits of s.
RECURSIVE LeadDigits(_)
LeadDigits(s) ==
    IF s # <<>> /\ IsDigit(s[1]) THEN <<s[1]>> \o LeadDigits(Tail(s)) ELSE <<>>
RECURSIVE LeadUnit(_)
LeadUnit(s) ==
    IF s # <<>> /\ ~IsDigit(s[1]) /\ s[1] # "." THEN <<s[1]>> \o LeadUnit(Tail(s)) ELSE <<>>

\* The terms <number><unit> of a duration string: their sum in
\* milliseconds, or -1 when a term is malformed.
RECURSIVE DurationTerms(_)
DurationTerms(s) ==
    IF s = <<>> THEN 0
    ELSE LET n == LeadDigits(s)
             rest == SubSeq(s, Len(n) + 1, Len(s))
             u == LeadUnit(rest)
             after == SubSeq(rest, Len(u) + 1, Len(rest))
         IN  IF n = <<>> \/ UnitMs(u) = 0 THEN -1
             ELSE LET more == DurationTerms(after)
                  IN  IF more = -1 THEN -1 ELSE DigitsVal(n) * UnitMs(u) + more

\* time.ParseDuration on whole numbers with the units ms, s, m and h: an
\* optional sign, then "0" or one or more terms.  (Fractions and the units
\* ns and us are not among the model's inputs.)
ParseDuration(s) ==
    LET u == Unsigned(s)
    IN  IF u = <<"0">> THEN Parsed(0)
        ELSE IF u = <<>> \/ DurationTerms(u) = -1 THEN ParseError
        ELSE Parsed(IF Negative(s) THEN -DurationTerms(u) ELSE DurationTerms(u))

\* strings.Split(s, ",")
RECURSIVE Split(_)
Split(s) ==
    LET i == Index(s, ",")
    IN  IF i = -1 THEN <<s>>
        ELSE <<SubSeq(s, 1, i)>> \o Split(SubSeq(s, i + 2, Len(s)))

---------------------------------------------------------------------------
(* Go values and fmt.Sprintf("%v", v) *)

\* A value of interface{} is its dynamic type and its content.
StringV(s) == [t |-> "string", v |-> s]
StringsV(ss) == [t |-> "[]string", v |-> ss]
IntV(n) == [t |-> "int", v |-> n]
Int64V(n) == [t |-> "int64", v |-> n]
FloatV(m, e) == [t |-> "float64", v |-> Normal(m, e)]
BoolV(b) == [t |-> "bool", v |-> b]
DurationV(ms) == [t |-> "time.Duration", v |-> ms]
IntsV(ns) == [t |-> "[]int", v |-> ns]
NilV == [t |-> "nil", v |-> 0]

\* A string of n zeros.
Zeros(n) == Repeat("0", n)

\* A float64 in the format %v, which is %g with the shortest precision:
\* d.ddde+XX when the decimal exponent is below -4 or at least 6, decimal
\* notation otherwise.
FloatText(f) ==
    LET neg == f.m < 0
        digs == NatText(IF neg THEN -f.m ELSE f.m)
        nd == Len(digs)
        dp == nd + f.e
        exp == dp - 1
        expDigits == NatText(IF exp < 0 THEN -exp ELSE exp)
        sign == IF neg THEN <<"-">> ELSE <<>>
        body ==
            IF f.m = 0 THEN <<"0">>
            ELSE IF exp < -4 \/ exp >= 6
            THEN <<digs[1]>> \o (IF nd > 1 THEN <<".">> \o Tail(digs) ELSE <<>>)
                 \o <<"e", IF exp < 0 THEN "-" ELSE "+">>
                 \o (IF Len(expDigits) < 2 THEN <<"0">> ELSE <<>>) \o expDigits
            ELSE IF dp <= 0 THEN <<"0", ".">> \o Zeros(-dp) \o digs
            ELSE IF dp >= nd THEN digs \o Zeros(dp - nd)
            ELSE SubSeq(digs, 1, dp) \o <<".">> \o SubSeq(digs, dp + 1, nd)
    IN  sign \o body

\* The digits of a fraction of a second given in milliseconds, without
\* trailing zeros: 500 is "5", 250 is "25", 5 is "005".
MsFraction(ms) ==
    LET three == (IF ms < 100 THEN <<"0">> ELSE <<>>) \o (IF ms < 10 THEN <<"0">> ELSE <<>>)
                 \o NatText(ms)
    IN  IF ms % 100 = 0 THEN SubSeq(three, 1, 1)
        ELSE IF ms % 10 = 0 THEN SubSeq(three, 1, 2)
        ELSE three

\* time.Duration.String() of a duration of whole milliseconds.
DurationText(d) ==
    LET u == IF d < 0 THEN -d ELSE d
        sign == IF d < 0 THEN <<"-">> ELSE <<>>
        secs == u \div 1000
        frac == u % 1000
        h == secs \div 3600
        m == (secs \div 60) % 60
        sec == secs % 60
        secText == NatText(sec) \o (IF frac = 0 THEN <<>> ELSE <<".">> \o MsFraction(frac))
                   \o <<"s">>
    IN  IF u = 0 THEN <<"0", "s">>
        ELSE IF u < 1000 THEN sign \o NatText(u) \o <<"m", "s">>
        ELSE sign \o (IF h > 0 THEN NatText(h) \o <<"h">> ELSE <<>>)
                  \o (IF h > 0 \/ m > 0 THEN NatText(m) \o <<"m">> ELSE <<>>)
                  \o secText

\* The elements of a slice separated by spaces.
RECURSIVE Joined(_)
Joined(ss) ==
    IF ss = <<>> THEN <<>>
    ELSE IF Len(ss) = 1 THEN ss[1]
    ELSE ss[1] \o <<" ">> \o Joined(Tail(ss))

\* fmt.Sprintf("%v", v)
Sprintv(v) ==
    CASE v.t = "string" -> v.v
      [] v.t = "[]string" -> <<"[">> \o Joined(v.v) \o <<"]">>
      [] v.t = "int" -> IntText(v.v)
      [] v.t = "int64" -> IntText(v.v)
      [] v.t = "float64" -> FloatText(v.v)
      [] v.t = "bool" -> IF v.v THEN <<"t", "r", "u", "e">> ELSE <<"f", "a", "l", "s", "e">>
      [] v.t = "time.Duration" -> DurationText(v.v)
      [] v.t = "[]int" -> <<"[">> \o Joined([i \in 1..Len(v.v) |-> IntText(v.v[i])]) \o <<"]">>
      [] OTHER -> <<"<", "n", "i", "l", ">">>

---------------------------------------------------------------------------
(* The file loader: Load, exists, process (src/unnamed/part_001) *)

\* bufio.MaxScanTokenSize: the scanner of process gives up on a line that
\* does not fit its buffer.
MaxScanTokenSize == 64 * 1024

\* A line of a file is its text `body` followed by `pad` spaces.
LineLen(l) == Len(l.body) + l.pad

\* bufio.ScanLines drops one trailing carriage return.
dropCR(s) == IF Len(s) > 0 /\ s[Len(s)] = "\r" THEN SubSeq(s, 1, Len(s) - 1) ELSE s

\* s.Text() of a line the scanner delivers.
Text(l) == dropCR(l.body \o Repeat(" ", l.pad))

\* s.Scan() on a file whose first n lines were delivered: is there a next
\* line, and does it fit the buffer?
ScanOK(f, n) == n < Len(f.lines) /\ LineLen(f.lines[n + 1]) < MaxScanTokenSize

\* exists(filename): os.Stat succeeds and the entry is no directory.
exists(f) == f.kind \in {"file", "unreadable"}

\* os.Open(filename) succeeds.
OpenOK(f) == f.kind = "file"

\* syscall.Setenv refuses an empty key, a key holding '=' or NUL, and a
\* value holding NUL.
SetenvOK(key, value) ==
    /\ Len(key) > 0
    /\ \A i \in 1..Len(key) : key[i] \notin {"=", "NUL"}
    /\ \A i \in 1..Len(value) : value[i] # "NUL"

\* os.Setenv on the environment e.
Setenv(e, key, value) ==
    [k \in DOMAIN e \cup {key} |-> IF k = key THEN value ELSE e[k]]

\* The comment stripping of process for a line that does not start with '#'.
StripComment(line) ==
    LET commentIdx == Index(line, "#")
    IN  IF commentIdx # -1 THEN SubSeq(line, 1, commentIdx) ELSE line

\* One iteration of the loop of process on the text of a line: skip the
\* line, fail ("parse", "invalid", "setenv") or set key to value.
processLine(line) ==
    IF Index(line, "#") = 0 THEN [out |-> "skip"]
    ELSE LET l == StripComment(line)
         IN  IF TrimSpace(l) = <<>> THEN [out |-> "skip"]
             ELSE LET parts == SplitN2(l, "=")
                  IN  IF Len(parts) # 2 THEN [out |-> "parse"]
                      ELSE LET key == TrimSpace(parts[1])
                               value == TrimSpace(parts[2])
                           IN  IF key = <<>> \/ value = <<>> THEN [out |-> "invalid"]
                               ELSE IF ~SetenvOK(key, value)
                                    THEN [out |-> "setenv", key |-> key, value |-> value]
                                    ELSE [out |-> "set", key |-> key, value |-> value]


\* The keys and values the model's files and callers use.
kA == S1("A")
kB == S1("B")
EmptyMap == [k \in {} |-> <<>>]

\* Files: absent, a directory, a file that cannot be opened, or a file of lines.
Line(body) == [body |-> body, pad |-> 0]
\* A line whose trailing spaces make it longer than the scanner's buffer.
LongLine(body) == [body |-> body, pad |-> MaxScanTokenSize]
File(lines) == [kind |-> "file", lines |-> lines]
NoFile(kind) == [kind |-> kind, lines |-> <<>>]

\* Go's nil error.
Nil == [kind |-> "nil"]

\* Load: os.UserHomeDir, exists(userEnv), and the os.Open of process(userEnv).
LoadHome ==
    /\ pcLoad = "start"
    /\ IF ~homeErr /\ exists(files.home)
       THEN IF OpenOK(files.home)
            THEN /\ pcLoad' = "home"
                 /\ UNCHANGED <<loadRet, procErr>>
            ELSE /\ pcLoad' = "done"
                 /\ procErr' = [kind |-> "open"]
                 /\ loadRet' = "ErrBadUserFile"
       ELSE /\ pcLoad' = "checkLocal"
            /\ UNCHANGED <<loadRet, procErr>>
    /\ scanned' = 0
    /\ lineNo' = -1
    /\ UNCHANGED <<build, registered, environ, last, homeErr, files, env0, step, concVars>>

\* Load: exists(localEnv), and the os.Open of process(localEnv).
LoadLocal ==
    /\ pcLoad = "checkLocal"
    /\ IF exists(files.local)
       THEN IF OpenOK(files.local)
            THEN /\ pcLoad' = "local"
                 /\ UNCHANGED <<loadRet, procErr>>
            ELSE /\ pcLoad' = "done"
                 /\ procErr' = [kind |-> "open"]
                 /\ loadRet' = "ErrBadLocalFile"
       ELSE /\ pcLoad' = "done"
            /\ loadRet' = "nil"
            /\ UNCHANGED procErr
    /\ scanned' = 0
    /\ lineNo' = -1
    /\ UNCHANGED <<build, registered, environ, last, homeErr, files, env0, step, concVars>>

\* What Load returns when process(which) fails.
ErrBad(which) == IF which = "home" THEN "ErrBadUserFile" ELSE "ErrBadLocalFile"

\* A variant of process that restores the environment when a line fails.
processRollsBack(which) ==
    /\ pcLoad = which
    /\ IF ~ScanOK(files[which], scanned)
       THEN /\ procErr' = Nil
            /\ pcLoad' = IF which = "home" THEN "checkLocal" ELSE "done"
            /\ loadRet' = IF which = "home" THEN loadRet ELSE "nil"
            /\ UNCHANGED <<scanned, lineNo, step, environ>>
       ELSE LET r == processLine(Text(files[which].lines[scanned + 1]))
            IN  /\ scanned' = scanned + 1
                /\ lineNo' = lineNo + 1
                /\ step' = [file |-> which, line |-> scanned + 1, r |-> r]
                /\ IF r.out = "skip"
                   THEN UNCHANGED <<environ, procErr, pcLoad, loadRet>>
                   ELSE IF r.out = "set"
                   THEN /\ environ' = Setenv(environ, r.key, r.value)
                        /\ UNCHANGED <<procErr, pcLoad, loadRet>>
                   ELSE /\ procErr' = [kind |-> r.out, lineNo |-> lineNo + 1]
                        /\ pcLoad' = "done"
                        /\ loadRet' = ErrBad(which)
                        /\ environ' = env0
    /\ UNCHANGED <<build, registered, last, homeErr, files, env0, concVars>>

\* process(filename), one iteration of `for s.Scan()`: when the scanner has
\* no further line, or one too long for it, the loop ends and process
\* returns nil (s.Err() is not looked at); otherwise the line is skipped,
\* or fails and process returns the error, or is applied with os.Setenv.
process(which) ==
    /\ pcLoad = which
    /\ IF ~ScanOK(files[which], scanned)
       THEN /\ procErr' = Nil
            /\ pcLoad' = IF which = "home" THEN "checkLocal" ELSE "done"
            /\ loadRet' = IF which = "home" THEN loadRet ELSE "nil"
            /\ UNCHANGED <<scanned, lineNo, step, environ>>
       ELSE LET r == processLine(Text(files[which].lines[scanned + 1]))
            IN  /\ scanned' = scanned + 1
                /\ lineNo' = lineNo + 1
                /\ step' = [file |-> which, line |-> scanned + 1, r |-> r]
                /\ IF r.out = "skip"
                   THEN UNCHANGED <<environ, procErr, pcLoad, loadRet>>
                   ELSE IF r.out = "set"
                   THEN /\ environ' = Setenv(environ, r.key, r.value)
                        /\ UNCHANGED <<procErr, pcLoad, loadRet>>
                   ELSE /\ procErr' = [kind |-> r.out, lineNo |-> lineNo + 1]
                        /\ pcLoad' = "done"
                        /\ loadRet' = ErrBad(which)
                        /\ UNCHANGED environ
    /\ UNCHANGED <<build, registered, last, homeErr, files, env0, concVars>>

processHome == process("home")
processLocal == process("local")

\* The lines of the model's files.
MaxLines == 2

FewLines ==
    { Line(S3("A", "=", "1")), Line(S3("A", "=", "2")), Line(S3("B", "A", "D")),
      LongLine(S3("B", "=", "1")) }

ManyLines == FewLines \cup
    { Line(S5("B", "=", "x", "=", "y")),            \* the value keeps a later '='
      Line(S4("#", "A", "=", "1")),                 \* a comment line
      Line(<<>>),                                   \* an empty line
      Line(S2(" ", "\t")),                          \* a blank line
      Line(S2(" ", "#")),                           \* blank once the comment is cut
      Line(S2("A", "=")),                           \* no value
      Line(S2("=", "1")),                           \* no key
      Line(S5("A", "=", "3", "#", "c")),            \* a trailing comment
      Line(S4("A", "=", "#", "1")),                 \* the comment eats the value
      Line(S5(" ", "B", " ", "=", " ") \o S2("2", " ")),  \* blanks around both
      Line(S4("B", "=", "4", "\r")),                \* a CRLF line
      Line(S4("A", "NUL", "=", "1")),               \* a key the system refuses
      Line(S3("B", "=", "NUL")) }                   \* a value the system refuses

SeqsUpTo(S, n) == UNION { [1..m -> S] : m \in 0..n }

FewFiles == { NoFile("absent"), NoFile("dir"), NoFile("unreadable") }
                \cup { File(ls) : ls \in SeqsUpTo(FewLines, MaxLines) }
ManyFiles == { File(ls) : ls \in SeqsUpTo(ManyLines, MaxLines) }

EnvInits == { EmptyMap, [k \in {kA} |-> S3("o", "l", "d")] }

InitRest ==
    /\ build = "part_000"
    /\ registered = EmptyMap
    /\ last = [op |-> "none"]

\* The goroutines that call Register and Default concurrently.
Procs == {"g1", "g2"}

InitConc ==
    /\ pc = [p \in Procs |-> "idle"]
    /\ call = [p \in Procs |-> [op |-> "none"]]
    /\ ret = [p \in Procs |-> [op |-> "none"]]
    /\ regMutex = [w |-> {}, r |-> {}]
    /\ mapWriters = {}
    /\ mapReaders = {}
    /\ written = {}

InitLoad ==
    /\ InitRest
    /\ InitConc
    /\ \/ /\ homeErr \in BOOLEAN
          /\ files \in [home : FewFiles, local : FewFiles]
       \/ /\ homeErr = FALSE
          /\ files \in [home : {NoFile("absent")}, local : ManyFiles]
    /\ env0 \in EnvInits
    /\ environ = env0
    /\ pcLoad = "start"
    /\ scanned = 0
    /\ lineNo = -1
    /\ loadRet = "none"
    /\ procErr = Nil
    /\ step = [file |-> "none"]

NextLoad == LoadHome \/ processHome \/ LoadLocal \/ processLocal

SpecLoad == InitLoad /\ [][NextLoad]_vars


---------------------------------------------------------------------------
(* The default registry: Register, Default (src/defaults.go and            *)
(* src/unnamed/part_000)                                                   *)

Builds == {"defaults.go", "part_000"}

\* The type constants of each variant (const ... iota).
Types_defaults_go ==
    [StringType |-> 0, IntType |-> 1, Float64Type |-> 2, BoolType |-> 3, DurationType |-> 4]
Types_part_000 ==
    [StringType |-> 0, StringSliceType |-> 1, IntType |-> 2, Float64Type |-> 3,
     BoolType |-> 4, DurationType |-> 5]

\* What the type switch of Register does when no case matches.
Panic == -1

\* The type switch of Register in variant b: the type constant of the
\* default value, or Panic.
dataType(b, defaultValue) ==
    IF b = "defaults.go"
    THEN CASE defaultValue.t = "string" -> Types_defaults_go.StringType
           [] defaultValue.t = "int" -> Types_defaults_go.IntType
           [] defaultValue.t = "float64" -> Types_defaults_go.Float64Type
           [] defaultValue.t = "bool" -> Types_defaults_go.BoolType
           [] defaultValue.t = "time.Duration" -> Types_defaults_go.DurationType
           [] OTHER -> Panic
    ELSE CASE defaultValue.t = "string" -> Types_part_000.StringType
           [] defaultValue.t = "[]string" -> Types_part_000.StringSliceType
           [] defaultValue.t = "int" -> Types_part_000.IntType
           [] defaultValue.t = "float64" -> Types_part_000.Float64Type
           [] defaultValue.t = "bool" -> Types_part_000.BoolType
           [] defaultValue.t = "time.Duration" -> Types_part_000.DurationType
           [] OTHER -> Panic

\* The descriptor Register stores.
descriptor(key, dt, defaultValue, description) ==
    [Var |-> key, DataType |-> dt, DefaultValue |-> defaultValue, Description |-> description]

\* The zero descriptor, which a map read returns for a missing key.
ZeroDescriptor == descriptor(<<>>, 0, NilV, <<>>)

\* registered[key] = d
MapSet(m, key, d) == [k \in DOMAIN m \cup {key} |-> IF k = key THEN d ELSE m[k]]

\* val, present := registered[key]
MapGet(m, key) ==
    IF key \in DOMAIN m THEN [val |-> m[key], present |-> TRUE]
    ELSE [val |-> ZeroDescriptor, present |-> FALSE]

\* Default(key) with no writer at work: what it returns.
Default(key) == MapGet(registered, key)

\* Register(key, defaultValue, description) with a single caller (the lock
\* of src/defaults.go is free when it is taken and free again on return,
\* also when the call panics): the call panics and changes nothing, or
\* stores the descriptor.
Register(key, defaultValue, description) ==
    LET dt == dataType(build, defaultValue)
    IN  /\ IF dt = Panic
           THEN UNCHANGED registered
           ELSE registered' = MapSet(registered, key, descriptor(key, dt, defaultValue, description))
        /\ last' = [op |-> "Register", key |-> key, value |-> defaultValue,
                    description |-> description, panic |-> (dt = Panic)]
        /\ UNCHANGED <<build, environ, loadVars, concVars>>

\* A call of Default(key).
DefaultCall(key) ==
    /\ last' = [op |-> "Default", key |-> key, result |-> Default(key)]
    /\ UNCHANGED <<build, registered, environ, loadVars, concVars>>

---------------------------------------------------------------------------
(* The typed accessors (src/unnamed/part_001) *)

\* os.LookupEnv(key)
LookupEnv(key) ==
    IF key \in DOMAIN environ THEN [val |-> environ[key], set |-> TRUE]
    ELSE [val |-> <<>>, set |-> FALSE]

\* descriptor.DefaultValue.(T): the type assertion succeeds.
IsType(d, t) == d.DefaultValue.t = t

true == <<"t", "r", "u", "e">>

GetString(key) ==
    IF LookupEnv(key).set THEN LookupEnv(key).val
    ELSE IF Default(key).present /\ IsType(Default(key).val, "string")
    THEN Default(key).val.DefaultValue.v
    ELSE <<>>

\* A nil slice.
NilSlice == <<>>

GetStringSlice(key) ==
    IF LookupEnv(key).set THEN Split(LookupEnv(key).val)
    ELSE IF Default(key).present /\ IsType(Default(key).val, "[]string")
    THEN Default(key).val.DefaultValue.v
    ELSE NilSlice

\* A variant of GetInt that returns 0 for a value that does not parse.
GetIntNoFallback(key) ==
    IF LookupEnv(key).set
    THEN IF ~Atoi(LookupEnv(key).val).err THEN Atoi(LookupEnv(key).val).val ELSE 0
    ELSE IF Default(key).present /\ IsType(Default(key).val, "int")
    THEN Default(key).val.DefaultValue.v
    ELSE 0

GetInt(key) ==
    IF LookupEnv(key).set /\ ~Atoi(LookupEnv(key).val).err
    THEN Atoi(LookupEnv(key).val).val
    ELSE IF Default(key).present /\ IsType(Default(key).val, "int")
    THEN Default(key).val.DefaultValue.v
    ELSE 0

GetInt64(key) ==
    IF LookupEnv(key).set /\ ~ParseInt64(LookupEnv(key).val).err
    THEN ParseInt64(LookupEnv(key).val).val
    ELSE IF Default(key).present
    THEN CASE IsType(Default(key).val, "int") -> Default(key).val.DefaultValue.v
           [] IsType(Default(key).val, "int64") -> Default(key).val.DefaultValue.v
           [] OTHER -> 0
    ELSE 0

\* The float64 zero.
Float0 == [m |-> 0, e |-> 0]

GetFloat64(key) ==
    IF LookupEnv(key).set /\ ~ParseFloat(LookupEnv(key).val).err
    THEN ParseFloat(LookupEnv(key).val).val
    ELSE IF Default(key).present /\ IsType(Default(key).val, "float64")
    THEN Default(key).val.DefaultValue.v
    ELSE Float0

GetBool(key) ==
    IF LookupEnv(key).set /\ EqualFold(LookupEnv(key).val, true)
    THEN TRUE
    ELSE IF Default(key).present /\ IsType(Default(key).val, "bool")
    THEN Default(key).val.DefaultValue.v
    ELSE FALSE

GetDuration(key) ==
    IF LookupEnv(key).set /\ ~ParseDuration(LookupEnv(key).val).err
    THEN ParseDuration(LookupEnv(key).val).val
    ELSE IF Default(key).present /\ IsType(Default(key).val, "time.Duration")
    THEN Default(key).val.DefaultValue.v
    ELSE 0

Accessors ==
    {"GetString", "GetStringSlice", "GetInt", "GetInt64", "GetFloat64", "GetBool", "GetDuration"}

\* What the accessor named op returns for key.
Get(op, key) ==
    CASE op = "GetString" -> GetString(key)
      [] op = "GetStringSlice" -> GetStringSlice(key)
      [] op = "GetInt" -> GetInt(key)
      [] op = "GetInt64" -> GetInt64(key)
      [] op = "GetFloat64" -> GetFloat64(key)
      [] op = "GetBool" -> GetBool(key)
      [] op = "GetDuration" -> GetDuration(key)

\* A call of an accessor.
GetCall(op, key) ==
    /\ last' = [op |-> op, key |-> key, result |-> Get(op, key)]
    /\ UNCHANGED <<build, registered, environ, loadVars, concVars>>

\* The program sets or unsets an environment variable (os.Setenv, os.Unsetenv).
SetenvCall(key, value) ==
    /\ SetenvOK(key, value)
    /\ environ' = Setenv(environ, key, value)
    /\ last' = [op |-> "Setenv", key |-> key]
    /\ UNCHANGED <<build, registered, loadVars, concVars>>

UnsetenvCall(key) ==
    /\ key \in DOMAIN environ
    /\ environ' = [k \in DOMAIN environ \ {key} |-> environ[k]]
    /\ last' = [op |-> "Unsetenv", key |-> key]
    /\ UNCHANGED <<build, registered, loadVars, concVars>>

---------------------------------------------------------------------------
(* The help printer: Help, pad (src/defaults.go and src/unnamed/part_000) *)

\* The texts of pad's failures and results.
PadPanic == [panic |-> TRUE, s |-> <<>>]
Padded(s) == [panic |-> FALSE, s |-> s]

\* pad(val, width): val[:width-3] panics when width-3 is no index of val.
pad(val, width) ==
    IF Len(val) > width
    THEN IF width - 3 < 0 \/ width - 3 > Len(val) THEN PadPanic
         ELSE Padded(SubSeq(val, 1, width - 3) \o <<".", ".", ".">>)
    ELSE Padded(val \o Repeat(" ", width - Len(val)))

\* typeNames[dt] of each variant; a missing key reads as "".
typeNames(b, dt) ==
    IF b = "defaults.go"
    THEN CASE dt = Types_defaults_go.StringType -> <<"s", "t", "r", "i", "n", "g">>
           [] dt = Types_defaults_go.IntType -> <<"i", "n", "t", "e", "g", "e", "r">>
           [] dt = Types_defaults_go.Float64Type -> <<"f", "l", "o", "a", "t">>
           [] dt = Types_defaults_go.BoolType -> <<"b", "o", "o", "l", "e", "a", "n">>
           [] dt = Types_defaults_go.DurationType -> <<"d", "u", "r", "a", "t", "i", "o", "n">>
           [] OTHER -> <<>>
    ELSE CASE dt = Types_part_000.StringType -> <<"s", "t", "r", "i", "n", "g">>
           [] dt = Types_part_000.StringSliceType -> <<"[", "]", "s", "t", "r", "i", "n", "g">>
           [] dt = Types_part_000.IntType -> <<"i", "n", "t", "e", "g", "e", "r">>
           [] dt = Types_part_000.Float64Type -> <<"f", "l", "o", "a", "t">>
           [] dt = Types_part_000.BoolType -> <<"b", "o", "o", "l", "e", "a", "n">>
           [] dt = Types_part_000.DurationType -> <<"d", "u", "r", "a", "t", "i", "o", "n">>
           [] OTHER -> <<>>

\* The largest of a set of lengths, 0 for the empty set (var width int; if
\* len(x) > width { width = len(x) }).
MaxOf(S) == IF S = {} THEN 0 ELSE CHOOSE n \in S : \A m \in S : m <= n

\* sort.Strings(keys): the keys of the map in ascending order.
SortedKeys(m) ==
    CHOOSE q \in [1..Cardinality(DOMAIN m) -> DOMAIN m] :
        \A i, j \in 1..Cardinality(DOMAIN m) : i < j => StrLess(q[i], q[j])

\* terminal.GetSize(0): the width Help works with.
TermWidth(size) == IF size.err THEN 80 ELSE size.w

\* The column widths of Help in src/unnamed/part_000.
Widths_part_000(termWidth) ==
    LET width == MaxOf({ Len(k) : k \in DOMAIN registered })
        descWidth == MaxOf({ Len(registered[k].Description) : k \in DOMAIN registered })
        defvalWidth == MaxOf({ Len(Sprintv(registered[k].DefaultValue)) : k \in DOMAIN registered })
    IN  IF width + descWidth + defvalWidth + 18 > termWidth
        THEN LET dv == IF defvalWidth > 20 THEN 20 ELSE defvalWidth
             IN  [width |-> width, descWidth |-> termWidth - width - dv - 18,
                  defvalWidth |-> dv]
        ELSE [width |-> width, descWidth |-> descWidth, defvalWidth |-> defvalWidth]

\* The column widths of Help in src/defaults.go.
Widths_defaults_go(termWidth) ==
    LET width == MaxOf({ Len(k) : k \in DOMAIN registered })
        descWidth == MaxOf({ Len(registered[k].Description) : k \in DOMAIN registered })
    IN  [width |-> width, descWidth |-> IF descWidth > 40 THEN 40 ELSE descWidth,
         defvalWidth |-> termWidth - width - 62]

\* The four pad calls Help makes for the descriptor of key, in order.
Cells(key, w) ==
    LET d == registered[key]
    IN  << pad(key, w.width), pad(typeNames(build, d.DataType), 12),
           pad(d.Description, w.descWidth), pad(Sprintv(d.DefaultValue), w.defvalWidth) >>

\* The pad calls of the whole loop of Help.
RECURSIVE AllCells(_, _)
AllCells(keys, w) ==
    IF keys = <<>> THEN <<>> ELSE Cells(keys[1], w) \o AllCells(Tail(keys), w)

\* What Help prints: the cells up to the first pad call that panics.
Printed(cells) ==
    LET n == CHOOSE n \in 0..Len(cells) :
                 /\ \A i \in 1..n : ~cells[i].panic
                 /\ (n < Len(cells) => cells[n + 1].panic)
    IN  [out |-> [i \in 1..n |-> cells[i].s], panic |-> n < Len(cells)]

\* Help() on a terminal of the given size.
Help(size) ==
    LET w == IF build = "defaults.go" THEN Widths_defaults_go(TermWidth(size))
             ELSE Widths_part_000(TermWidth(size))
        p == Printed(AllCells(SortedKeys(registered), w))
    IN  /\ last' = [op |-> "Help", size |-> size, out |-> p.out, panic |-> p.panic]
        /\ UNCHANGED <<build, registered, environ, loadVars, concVars>>

---------------------------------------------------------------------------
(* The sequential use of the registry and the accessors: Spec *)

kAB == S2("A", "B")
kLong == Repeat("K", 60)

d1 == S2("d", "1")
d2 == S2("d", "2")
dLong == Repeat("d", 45)

RawValues ==
    { true, <<"T", "R", "U", "E">>, <<"T", "r", "u", "e">>, <<"f", "a", "l", "s", "e">>,
      <<"y", "e", "s">>, <<"1">>, <<>>, <<"1", "0">>, <<"a", "b", "c">>, <<"-", "7">>,
      <<"+", "0", "7">>, <<"1", ".", "5">>, <<"1", "e", "2">>, <<"5", "s">>,
      <<"1", "m", "3", "0", "s">>, <<"a", ",", "b">> }

DefaultValues ==
    { StringV(<<"p", "g">>), StringsV(<< <<"x">>, <<"y">> >>), IntV(-1), Int64V(9),
      FloatV(25, -1), BoolV(TRUE), DurationV(7000), IntsV(<<1, 2>>) }

InitLoadIdle ==
    /\ homeErr = FALSE
    /\ files = [home |-> NoFile("absent"), local |-> NoFile("absent")]
    /\ env0 = EmptyMap
    /\ pcLoad = "idle"
    /\ scanned = 0
    /\ lineNo = -1
    /\ loadRet = "none"
    /\ procErr = Nil
    /\ step = [file |-> "none"]

Init ==
    /\ build \in Builds
    /\ registered = EmptyMap
    /\ environ = EmptyMap
    /\ last = [op |-> "none"]
    /\ InitLoadIdle
    /\ InitConc

\* The Register calls of the program: every kind of default under the key
\* A, a second registration of A with another description, and a few
\* defaults under the key B.  Only A is ever set in the environment.
RegisterArgs ==
    ({kA} \X DefaultValues \X {d1})
        \cup ({kA} \X {IntV(-1), StringV(<<"q">>)} \X {d2})
        \cup ({kB} \X {IntV(-1), BoolV(TRUE), Int64V(9)} \X {d1})

RegisterAny == \E a \in RegisterArgs : Register(a[1], a[2], a[3])
DefaultAny == \E key \in {kA, kB} : DefaultCall(key)
GetAny == \E op \in Accessors, key \in {kA, kB} : GetCall(op, key)
SetenvAny == \E value \in RawValues : SetenvCall(kA, value)
UnsetenvAny == UnsetenvCall(kA)

Next == RegisterAny \/ DefaultAny \/ GetAny \/ SetenvAny \/ UnsetenvAny

Spec == Init /\ [][Next]_vars

---------------------------------------------------------------------------
(* The help printer on registries of short and long entries: SpecHelp *)

TermSizes == { [err |-> TRUE, w |-> 0], [err |-> FALSE, w |-> 20], [err |-> FALSE, w |-> 120] }

HelpValues == { IntV(-1), StringV(Repeat("v", 25)) }

RegisterHelp ==
    \E key \in {kA, kAB, kLong}, v \in HelpValues, d \in {d1, dLong} : Register(key, v, d)
HelpAny == \E size \in TermSizes : Help(size)

NextHelp == RegisterHelp \/ HelpAny

SpecHelp == Init /\ [][NextHelp]_vars

---------------------------------------------------------------------------
(* Claims about the accessors and the registry, under Spec *)

\* C1: GetBool(name), when the variable is set, returns true if its raw
\* value equals "true" case-insensitively and false for every other raw
\* value, whatever is registered: a registered bool default is never
\* consulted while the variable is set.
C1_GetBoolSetIgnoresDefault ==
    (last.op = "GetBool" /\ last.key \in DOMAIN environ)
        => last.result = EqualFold(environ[last.key], true)

\* The accessors of C7, the parse each applies and the zero of its type.
Numeric == {"GetInt", "GetInt64", "GetFloat64", "GetDuration"}
ParseFor(op, raw) ==
    CASE op = "GetInt" -> Atoi(raw)
      [] op = "GetInt64" -> ParseInt64(raw)
      [] op = "GetFloat64" -> ParseFloat(raw)
      [] op = "GetDuration" -> ParseDuration(raw)
ZeroFor(op) == IF op = "GetFloat64" THEN Float0 ELSE 0
TypeFor(op) ==
    CASE op = "GetInt" -> "int"
      [] op = "GetInt64" -> "int64"
      [] op = "GetFloat64" -> "float64"
      [] op = "GetDuration" -> "time.Duration"

\* The default types an accessor accepts: its own type, and as amended
\* int for GetInt64.
OwnType(op) == {TypeFor(op)}
OwnTypeOrInt(op) == IF op = "GetInt64" THEN {"int64", "int"} ELSE {TypeFor(op)}

\* What C7 says an accessor returns, with the accepted default types given.
Resolved(op, key, accepted(_)) ==
    IF key \in DOMAIN environ /\ ~ParseFor(op, environ[key]).err
    THEN ParseFor(op, environ[key]).val
    ELSE IF key \in DOMAIN registered /\ registered[key].DefaultValue.t \in accepted(op)
    THEN registered[key].DefaultValue.v
    ELSE ZeroFor(op)

\* C7 as claimed: GetInt, GetInt64, GetFloat64 and GetDuration return the
\* parsed value of a set variable that parses, whatever is registered;
\* otherwise the registered default when its runtime type is the accessor's
\* type; otherwise the zero value.
C7_Resolution_Original ==
    last.op \in Numeric => last.result = Resolved(last.op, last.key, OwnType)

\* C7, amended: as claimed, and GetInt64 also returns a registered default
\* of type int, converted to int64.
C7_Resolution ==
    last.op \in Numeric => last.result = Resolved(last.op, last.key, OwnTypeOrInt)

C7_Witness ==
    /\ last.op = "GetInt64"
    /\ last.key = kA
    /\ kA \in DOMAIN environ
    /\ environ[kA] = <<"a", "b", "c">>
    /\ kA \in DOMAIN registered
    /\ registered[kA].DefaultValue = IntV(-1)
    /\ last.result = -1

\* The default types the spec counts as supported, and the name of the
\* type constant of each.
Supported ==
    {"string", "[]string", "int", "int64", "float64", "bool", "time.Duration"}

\* The type the descriptor's tag stands for, read through typeNames.
TagSaysType(dt, t) ==
    typeNames(build, dt) =
        CASE t = "string" -> <<"s", "t", "r", "i", "n", "g">>
          [] t = "[]string" -> <<"[", "]", "s", "t", "r", "i", "n", "g">>
          [] t \in {"int", "int64"} -> <<"i", "n", "t", "e", "g", "e", "r">>
          [] t = "float64" -> <<"f", "l", "o", "a", "t">>
          [] t = "bool" -> <<"b", "o", "o", "l", "e", "a", "n">>
          [] t = "time.Duration" -> <<"d", "u", "r", "a", "t", "i", "o", "n">>

\* C8: Default(name) finds nothing for a name never registered, and otherwise
\* exactly the descriptor of the last Register for name: the tag inferred
\* from that call's default value, its default value and its description;
\* this for a default of each supported type (string, string list, int,
\* int64, float, bool, duration).
C8_RegisterThenDefault ==
    /\ (last.op = "Register" /\ last.value.t \in Supported)
          => /\ ~last.panic
             /\ Default(last.key).present
             /\ Default(last.key).val.Var = last.key
             /\ Default(last.key).val.DefaultValue = last.value
             /\ Default(last.key).val.Description = last.description
             /\ TagSaysType(Default(last.key).val.DataType, last.value.t)
    /\ (last.op = "Default")
          => last.result = MapGet(registered, last.key)

---------------------------------------------------------------------------
(* Concurrent callers of Register and Default: SpecConc                    *)
(*                                                                         *)
(* regMutex is a sync.RWMutex: w holds the goroutine that has it locked,   *)
(* r those that have it read-locked.  A write of the map `registered`      *)
(* takes time: mapWriters are the goroutines inside the assignment         *)
(* registered[key] = ..., mapReaders those inside the read registered[key].*)
(* A read or write of the map that overlaps a write is a data race: the Go *)
(* runtime may stop the program ("concurrent map read and map write"), or  *)
(* the access yields a mix of the old and the new descriptor.              *)

\* No call under way and none returned.
NoCall == [op |-> "none"]

\* regMutex.Lock() and regMutex.RLock() do not block.
CanLock == regMutex.w = {} /\ regMutex.r = {}
CanRLock == regMutex.w = {}

\* A variant of the deferred unlock that does not run.
DeferredUnlockSkipped(p) == regMutex

\* defer regMutex.Unlock() of Register in src/defaults.go; Register in
\* src/unnamed/part_000 has none.
DeferredUnlock(p) ==
    IF build = "defaults.go" THEN [regMutex EXCEPT !.w = @ \ {p}] ELSE regMutex

concFrame == <<build, environ, last, loadVars>>

\* Register is called: src/defaults.go takes the lock first,
\* src/unnamed/part_000 goes straight to the type switch.
RegisterEnter(p, key, defaultValue, description) ==
    /\ pc[p] = "idle"
    /\ IF build = "defaults.go"
       THEN CanLock /\ regMutex' = [regMutex EXCEPT !.w = {p}]
       ELSE UNCHANGED regMutex
    /\ pc' = [pc EXCEPT ![p] = "switch"]
    /\ call' = [call EXCEPT ![p] = [op |-> "Register", key |-> key, value |-> defaultValue,
                                    description |-> description]]
    /\ ret' = [ret EXCEPT ![p] = NoCall]
    /\ UNCHANGED <<registered, mapWriters, mapReaders, written, concFrame>>

\* The type switch: panic("invalid type"), with the deferred unlock run on
\* the way out, or on to the map assignment.
RegisterSwitch(p) ==
    /\ pc[p] = "switch"
    /\ IF dataType(build, call[p].value) = Panic
       THEN /\ regMutex' = DeferredUnlock(p)
            /\ pc' = [pc EXCEPT ![p] = "idle"]
            /\ ret' = [ret EXCEPT ![p] = [op |-> "Register", panic |-> TRUE]]
            /\ call' = [call EXCEPT ![p] = NoCall]
       ELSE /\ pc' = [pc EXCEPT ![p] = "write"]
            /\ UNCHANGED <<regMutex, ret, call>>
    /\ UNCHANGED <<registered, mapWriters, mapReaders, written, concFrame>>

\* The descriptor the call of p stores.
Pending(p) ==
    descriptor(call[p].key, dataType(build, call[p].value), call[p].value, call[p].description)

\* The assignment registered[key] = descriptor{...} begins.
RegisterWriteBegin(p) ==
    /\ pc[p] = "write"
    /\ mapWriters' = mapWriters \cup {p}
    /\ written' = written \cup {Pending(p)}
    /\ pc' = [pc EXCEPT ![p] = "writing"]
    /\ UNCHANGED <<registered, call, ret, regMutex, mapReaders, concFrame>>

\* The runtime stops the program on a map access it sees racing.
Fatal ==
    /\ pc' = [q \in Procs |-> "fatal"]
    /\ mapWriters' = {}
    /\ mapReaders' = {}
    /\ UNCHANGED <<registered, call, ret, regMutex, written, concFrame>>

\* The assignment ends, and Register returns (unlocking, in src/defaults.go).
\* With another goroutine inside the map the runtime may stop the program.
RegisterWriteEnd(p) ==
    /\ pc[p] = "writing"
    /\ \/ /\ registered' = MapSet(registered, call[p].key, Pending(p))
          /\ mapWriters' = mapWriters \ {p}
          /\ regMutex' = DeferredUnlock(p)
          /\ pc' = [pc EXCEPT ![p] = "idle"]
          /\ ret' = [ret EXCEPT ![p] = [op |-> "Register", panic |-> FALSE]]
          /\ call' = [call EXCEPT ![p] = NoCall]
          /\ UNCHANGED <<mapReaders, written, concFrame>>
       \/ /\ (mapWriters \cup mapReaders) \ {p} # {}
          /\ Fatal

\* Default is called and takes the read lock.
DefaultEnter(p, key) ==
    /\ pc[p] = "idle"
    /\ CanRLock
    /\ regMutex' = [regMutex EXCEPT !.r = @ \cup {p}]
    /\ pc' = [pc EXCEPT ![p] = "read"]
    /\ call' = [call EXCEPT ![p] = [op |-> "Default", key |-> key]]
    /\ ret' = [ret EXCEPT ![p] = NoCall]
    /\ UNCHANGED <<registered, mapWriters, mapReaders, written, concFrame>>

\* The read registered[key] begins.
DefaultReadBegin(p) ==
    /\ pc[p] = "read"
    /\ mapReaders' = mapReaders \cup {p}
    /\ pc' = [pc EXCEPT ![p] = "reading"]
    /\ UNCHANGED <<registered, call, ret, regMutex, mapWriters, written, concFrame>>

\* What a read of key may yield while writers are inside the map: the
\* stored descriptor, one being written, or the name and tag of one with
\* the default and description of another.
RacyReads(key) ==
    LET ds == {MapGet(registered, key).val} \cup { Pending(q) : q \in mapWriters }
    IN  { [val |-> descriptor(a.Var, a.DataType, b.DefaultValue, b.Description),
           present |-> a # ZeroDescriptor] : a \in ds, b \in ds }

\* The read ends and Default unlocks and returns.  With a writer inside
\* the map the read yields a mix, or the runtime stops the program.
DefaultReadEnd(p) ==
    /\ pc[p] = "reading"
    /\ \/ /\ \E v \in (IF mapWriters = {} THEN {MapGet(registered, call[p].key)}
                       ELSE RacyReads(call[p].key)) :
                ret' = [ret EXCEPT ![p] = [op |-> "Default", key |-> call[p].key, result |-> v]]
          /\ mapReaders' = mapReaders \ {p}
          /\ regMutex' = [regMutex EXCEPT !.r = @ \ {p}]
          /\ pc' = [pc EXCEPT ![p] = "idle"]
          /\ call' = [call EXCEPT ![p] = NoCall]
          /\ UNCHANGED <<registered, mapWriters, written, concFrame>>
       \/ /\ mapWriters # {}
          /\ Fatal

\* The calls the goroutines make: each default comes with its own
\* description, so that a mix of two descriptors shows.
ConcArgs ==
    { <<IntV(-1), d1>>, <<StringV(<<"p", "g">>), d2>>, <<IntsV(<<1, 2>>), d1>> }

InitConcSpec ==
    /\ build \in Builds
    /\ registered = EmptyMap
    /\ environ = EmptyMap
    /\ last = [op |-> "none"]
    /\ InitLoadIdle
    /\ InitConc

NextConc ==
    \E p \in Procs :
        \/ \E a \in ConcArgs : RegisterEnter(p, kA, a[1], a[2])
        \/ RegisterSwitch(p)
        \/ RegisterWriteBegin(p)
        \/ RegisterWriteEnd(p)
        \/ DefaultEnter(p, kA)
        \/ DefaultReadBegin(p)
        \/ DefaultReadEnd(p)

SpecConc == InitConcSpec /\ [][NextConc]_vars

---------------------------------------------------------------------------
(* Claims about concurrent callers, under SpecConc, and about Help, under  *)
(* SpecHelp                                                                *)

\* C2: Register never writes the map while another Register writes it or a
\* Default reads it, and Default(name) returns a complete descriptor that
\* some Register stored under name, or nothing.
C2_WritersExclusive ==
    /\ \A p \in mapWriters : mapWriters = {p} /\ mapReaders = {}
    /\ \A p \in Procs :
          ret[p].op = "Default" =>
              \/ /\ ret[p].result.present
                 /\ ret[p].result.val \in written
                 /\ ret[p].result.val.Var = ret[p].key
              \/ ret[p].result = [val |-> ZeroDescriptor, present |-> FALSE]

\* The call of p that is under way, or returned last, is a Register with a
\* default of a type the type switch has no case for.
Unsupported(c) == c.op = "Register" /\ dataType(build, c.value) = Panic

\* C9: Register with a default of an unsupported type panics and leaves the
\* registry as it was: no step of such a call changes the map, the call
\* ends in a panic, and once it is over the caller holds no lock, so that
\* no later Register or Default is blocked by it.
C9_PanicLeavesRegistry ==
    /\ [][\A p \in Procs :
            ((Unsupported(call'[p]) \/ Unsupported(call[p])) /\ pc'[p] # pc[p]
                /\ pc'[p] # "fatal")
                => /\ registered' = registered
                   /\ (pc'[p] = "idle" => ret'[p].op = "Register" /\ ret'[p].panic)]_vars
    /\ [](\A p \in Procs : pc[p] = "idle" => p \notin (regMutex.w \cup regMutex.r))

C9_Witness ==
    \E p \in Procs, q \in Procs :
        /\ p # q
        /\ build = "defaults.go"
        /\ pc[p] = "idle"
        /\ ret[p].op = "Register"
        /\ ret[p].panic
        /\ pc[q] = "writing"
        /\ regMutex.w = {q}
        /\ registered # EmptyMap

\* C10: Help() completes without panicking, for any registry and any
\* terminal width, and prints exactly one row per registered descriptor in
\* ascending order of name: pad is never called with a value longer than a
\* width below 3.
C10_HelpPrintsEveryRow ==
    last.op = "Help" =>
        /\ ~last.panic
        /\ Len(last.out) = 4 * Cardinality(DOMAIN registered)
        /\ { TrimSpace(last.out[4 * i - 3]) : i \in 1..Cardinality(DOMAIN registered) }
              = DOMAIN registered
        /\ \A i, j \in 1..Cardinality(DOMAIN registered) :
              i < j => StrLess(TrimSpace(last.out[4 * i - 3]), TrimSpace(last.out[4 * j - 3]))

---------------------------------------------------------------------------
(* What a .env file says, read off its lines without running process *)

\* What a line says: trailing spaces past the first are trimmed or part of
\* a comment, so a padded line says what its body followed by one space says.
Content(l) == IF l.pad = 0 THEN dropCR(l.body) ELSE l.body \o <<" ">>

\* The text before the first '#': the longest prefix holding no '#'.
Remainder(t) ==
    LET n == CHOOSE n \in 0..Len(t) :
                 /\ \A i \in 1..n : t[i] # "#"
                 /\ (n < Len(t) => t[n + 1] = "#")
    IN  SubSeq(t, 1, n)

Blank(s) == \A i \in 1..Len(s) : IsSpace(s[i])
HasEq(s) == \E i \in 1..Len(s) : s[i] = "="
FirstEq(s) == CHOOSE i \in 1..Len(s) : s[i] = "=" /\ \A j \in 1..(i - 1) : s[j] # "="
KeyOf(s) == TrimSpace(SubSeq(s, 1, FirstEq(s) - 1))
ValueOf(s) == TrimSpace(SubSeq(s, FirstEq(s) + 1, Len(s)))

\* The remainder has the shape key=value with neither side empty.
Shaped(s) == HasEq(s) /\ KeyOf(s) # <<>> /\ ValueOf(s) # <<>>

\* The line is an assignment the system accepts.
Assigns(l) ==
    LET s == Remainder(Content(l))
    IN  ~Blank(s) /\ Shaped(s) /\ SetenvOK(KeyOf(s), ValueOf(s))

\* The line makes process fail.
Fails(l) ==
    LET s == Remainder(Content(l))
    IN  ~Blank(s) /\ ~(Shaped(s) /\ SetenvOK(KeyOf(s), ValueOf(s)))

AssignedKey(l) == KeyOf(Remainder(Content(l)))
AssignedValue(l) == ValueOf(Remainder(Content(l)))

\* The keys the lines ls assign, and the value of the last assignment to k.
KeysOf(ls) == { AssignedKey(ls[i]) : i \in { j \in 1..Len(ls) : Assigns(ls[j]) } }
LastValue(ls, k) ==
    LET i == CHOOSE i \in 1..Len(ls) :
                 /\ Assigns(ls[i]) /\ AssignedKey(ls[i]) = k
                 /\ \A j \in (i + 1)..Len(ls) : ~(Assigns(ls[j]) /\ AssignedKey(ls[j]) = k)
    IN  AssignedValue(ls[i])

\* The file Load looks at in each place, and its lines.
Present(which) ==
    IF which = "home" THEN ~homeErr /\ exists(files.home) ELSE exists(files.local)
LinesOf(which) == IF Present(which) THEN files[which].lines ELSE <<>>

\* The lines of a file the scanner delivers: those before the first line
\* that is too long for it.
Delivered(ls) ==
    LET n == CHOOSE n \in 0..Len(ls) :
                 /\ \A i \in 1..n : LineLen(ls[i]) < MaxScanTokenSize
                 /\ (n < Len(ls) => LineLen(ls[n + 1]) >= MaxScanTokenSize)
    IN  SubSeq(ls, 1, n)

\* The file fails to parse: it cannot be opened, or one of its lines fails.
FailsToParse(which) ==
    \/ ~OpenOK(files[which])
    \/ \E i \in 1..Len(files[which].lines) : Fails(files[which].lines[i])

\* The environment holds, for every key the lines assign, the last value.
Applied(ls) ==
    \A k \in KeysOf(ls) : k \in DOMAIN environ /\ environ[k] = LastValue(ls, k)

---------------------------------------------------------------------------
(* Claims about the file loader, under SpecLoad *)

\* C3: after a Load that returns nil, every key assigned in the home or the
\* local .env file holds the value of the last assignment to it, all lines
\* of the home file first, then all lines of the local file.
C3_LastAssignmentWins ==
    (pcLoad = "done" /\ loadRet = "nil")
        => Applied(LinesOf("home") \o LinesOf("local"))

\* C4: Load returns ErrBadUserFile exactly when the home file is present and
\* fails to parse, ErrBadLocalFile exactly when the home file is absent or
\* parses and the local file is present and fails to parse, and nil
\* otherwise; an absent file is never an error.
C4_WhichFileFailed ==
    pcLoad = "done" =>
        loadRet = IF Present("home") /\ FailsToParse("home") THEN "ErrBadUserFile"
                  ELSE IF Present("local") /\ FailsToParse("local") THEN "ErrBadLocalFile"
                  ELSE "nil"

\* C5: when Load fails on a line, every assignment of the lines processed
\* before it (the delivered lines of the home file when the local file
\* fails, and the lines before the failing line in the failing file) is
\* still applied.
C5_NoRollback ==
    (pcLoad = "done" /\ loadRet # "nil" /\ procErr.kind # "open")
        => LET before == SubSeq(files[step.file].lines, 1, step.line - 1)
               earlier == IF step.file = "local" THEN Delivered(LinesOf("home")) ELSE <<>>
           IN  Applied(earlier \o before)

C5_Witness ==
    /\ pcLoad = "done"
    /\ loadRet = "ErrBadLocalFile"
    /\ procErr.kind = "parse"
    /\ step.line = 2
    /\ kA \in DOMAIN environ
    /\ environ[kA] = S1("2")
    /\ env0 # EmptyMap
    /\ KeysOf(LinesOf("home")) # {}

\* What C6 says of the line process scanned last, with the failure cases
\* beyond the claim's own given by refused(key, value).
LineRule(refused(_, _)) ==
    step.file # "none" =>
        LET s == Remainder(Text(files[step.file].lines[step.line]))
        IN  IF Blank(s) THEN step.r.out = "skip"
            ELSE IF ~HasEq(s) \/ KeyOf(s) = <<>> \/ ValueOf(s) = <<>>
                    \/ refused(KeyOf(s), ValueOf(s))
            THEN /\ step.r.out \in {"parse", "invalid", "setenv"}
                 /\ pcLoad = "done"
                 /\ loadRet = ErrBad(step.file)
            ELSE /\ step.r.out = "set"
                 /\ KeyOf(s) \in DOMAIN environ
                 /\ environ[KeyOf(s)] = ValueOf(s)

NeverRefused(key, value) == FALSE
RefusedBySystem(key, value) == ~SetenvOK(key, value)

\* Every line of a file that process went through without failing was
\* handled: when process has returned nil for a file, the line it handled
\* last is the last line of the file.
EveryLineHandled ==
    /\ (pcLoad = "checkLocal" /\ Present("home"))
          => scanned = Len(files.home.lines)
    /\ (pcLoad = "done" /\ loadRet = "nil" /\ Present("local"))
          => scanned = Len(files.local.lines)

\* C6: for each line of a .env file, process cuts the line at the first
\* '#', skips it if the rest is blank, fails exactly when the rest has no
\* '=' or its key or value is empty after trimming, and in every other case
\* sets key to value (the value keeping any later '='); no line of the file
\* is left out.
C6_LineRule == LineRule(NeverRefused) /\ EveryLineHandled

\* The part of C6 the code keeps: the rule holds of every line the scanner
\* delivers, once a refusal by os.Setenv (a NUL byte in the key or the
\* value) is counted among the failures.
DeliveredLineRule == LineRule(RefusedBySystem)

=============================================================================
